---- MODULE Spec2Model ----
(***************************************************************************)
(* Model of the ephemeral file relay of src/local-server.js: the two       *)
(* in-memory maps fileStorage and fileMetadata, the upload / download /    *)
(* preview handlers and the per-object cleanup timers.                     *)
(*                                                                         *)
(* Node runs every handler and every timer callback to completion on one   *)
(* thread and none of them awaits, so each is one atomic action.           *)
(* Strings are sequences of one-character strings, so that startsWith,     *)
(* substring, toUpperCase and concatenation are computed, not assumed.     *)
(***************************************************************************)
EXTENDS Integers, Sequences, FiniteSets, TLC

(***************************************************************************)
(* Bounds of the model.                                                    *)
(***************************************************************************)
MaxUploads == 2
TicksPerTTL == 2
MaxTicks == 4

(***************************************************************************)
(* Program constants.                                                      *)
(***************************************************************************)
\* the 3 hours added to Date.now() for expirationTime
TTL == 3 * 60 * 60 * 1000

CleanupDelayMinutes == 3 * 60 * 1000

\* the delay handed to setTimeout
CleanupDelay == 3 * 60 * 60 * 1000

fileSize == 10 * 1024 * 1024

TickMs == TTL \div TicksPerTTL
MaxTime == MaxTicks * TickMs

(***************************************************************************)
(* String literals of the source.                                          *)
(***************************************************************************)
allowedTypes ==
  { <<"i", "m", "a", "g", "e", "/", "j", "p", "e", "g">>,
    <<"i", "m", "a", "g", "e", "/", "j", "p", "g">>,
    <<"i", "m", "a", "g", "e", "/", "p", "n", "g">>,
    <<"i", "m", "a", "g", "e", "/", "g", "i", "f">>,
    <<"i", "m", "a", "g", "e", "/", "w", "e", "b", "p">>,
    <<"v", "i", "d", "e", "o", "/", "m", "p", "4">>,
    <<"v", "i", "d", "e", "o", "/", "w", "e", "b", "m">>,
    <<"a", "u", "d", "i", "o", "/", "m", "p", "e", "g">>,
    <<"a", "u", "d", "i", "o", "/", "w", "a", "v">>,
    <<"t", "e", "x", "t", "/", "p", "l", "a", "i", "n">>,
    <<"a", "p", "p", "l", "i", "c", "a", "t", "i", "o", "n", "/", "p", "d", "f">> }

ApplicationPdf == <<"a", "p", "p", "l", "i", "c", "a", "t", "i", "o", "n", "/", "p", "d", "f">>
ImagePrefix == <<"i", "m", "a", "g", "e", "/">>
VideoPrefix == <<"v", "i", "d", "e", "o", "/">>
AudioPrefix == <<"a", "u", "d", "i", "o", "/">>
TextPrefix == <<"t", "e", "x", "t", "/">>
DownloadPath == <<"/", "a", "p", "i", "/", "d", "o", "w", "n", "l", "o", "a", "d", "/">>
PreviewPath == <<"/", "a", "p", "i", "/", "p", "r", "e", "v", "i", "e", "w", "/">>

\* JavaScript null; every string placed next to it is non-empty.
Null == << >>

(***************************************************************************)
(* String primitives of JavaScript used by the source.                     *)
(***************************************************************************)
Min(a, b) == IF a < b THEN a ELSE b

\* String.prototype.startsWith
startsWith(s, p) == Len(s) >= Len(p) /\ SubSeq(s, 1, Len(p)) = p

\* String.prototype.substring(a, b), 0 <= a <= b
substring(s, a, b) == SubSeq(s, a + 1, Min(b, Len(s)))

LowerCase == <<"a", "b", "c", "d", "e", "f", "g", "h", "i", "j", "k", "l", "m",
               "n", "o", "p", "q", "r", "s", "t", "u", "v", "w", "x", "y", "z">>
UpperCase == <<"A", "B", "C", "D", "E", "F", "G", "H", "I", "J", "K", "L", "M",
               "N", "O", "P", "Q", "R", "S", "T", "U", "V", "W", "X", "Y", "Z">>

\* String.prototype.toUpperCase
toUpperCase(s) ==
  [i \in 1..Len(s) |->
     IF \E k \in 1..26 : LowerCase[k] = s[i]
     THEN UpperCase[CHOOSE k \in 1..26 : LowerCase[k] = s[i]]
     ELSE s[i]]

\* Number.prototype.toString(36) of a value of Math.random(), which lies in
\* [0, 1): frac is the sequence of its base-36 fraction digits, empty for 0.
toString36(frac) == IF frac = << >> THEN <<"0">> ELSE <<"0", ".">> \o frac

(***************************************************************************)
(* Pure functions of the source.                                           *)
(***************************************************************************)
generateShortCode(frac) == toUpperCase(substring(toString36(frac), 2, 8))

isPreviewableNoPdf(mimetype) ==
  \/ startsWith(mimetype, ImagePrefix)
  \/ startsWith(mimetype, VideoPrefix)
  \/ startsWith(mimetype, AudioPrefix)
  \/ startsWith(mimetype, TextPrefix)

isPreviewable(mimetype) ==
  \/ startsWith(mimetype, ImagePrefix)
  \/ startsWith(mimetype, VideoPrefix)
  \/ startsWith(mimetype, AudioPrefix)
  \/ startsWith(mimetype, TextPrefix)
  \/ mimetype = ApplicationPdf

fileFilterAcceptAll(mimetype) == TRUE

\* multer's fileFilter: TRUE when the file is accepted
fileFilter(mimetype) == mimetype \in allowedTypes

withinLimitsNoCap(size) == TRUE

\* multer's limits.fileSize: TRUE when the file is not larger than the cap
withinLimits(size) == size <= fileSize

isExpiredNever(t, expirationTime) == FALSE

\* the lazy-expiry test of download and preview
isExpired(t, expirationTime) == t > expirationTime

(***************************************************************************)
(* Inputs.                                                                 *)
(***************************************************************************)
\* Files a client posts: buffer holds the (leading) bytes, size the byte
\* count multer reports for the part.
HelloTxt ==
  [buffer |-> <<104, 101, 108, 108, 111>>,
   mimetype |-> <<"t", "e", "x", "t", "/", "p", "l", "a", "i", "n">>,
   originalname |-> <<"a", ".", "t", "x", "t">>,
   size |-> 5]
DocPdf ==
  [buffer |-> <<37, 80, 68, 70>>,
   mimetype |-> ApplicationPdf,
   originalname |-> <<"b", ".", "p", "d", "f">>,
   size |-> 4]
ArchiveZip ==
  [buffer |-> <<80, 75>>,
   mimetype |-> <<"a", "p", "p", "l", "i", "c", "a", "t", "i", "o", "n", "/", "z", "i", "p">>,
   originalname |-> <<"c", ".", "z", "i", "p">>,
   size |-> 2]
DrawingSvg ==
  [buffer |-> <<60>>,
   mimetype |-> <<"i", "m", "a", "g", "e", "/", "s", "v", "g", "+", "x", "m", "l">>,
   originalname |-> <<"d", ".", "s", "v", "g">>,
   size |-> 1]
HugeTxt ==
  [buffer |-> <<120>>,
   mimetype |-> <<"t", "e", "x", "t", "/", "p", "l", "a", "i", "n">>,
   originalname |-> <<"e", ".", "t", "x", "t">>,
   size |-> fileSize + 1]
NoFile ==
  [buffer |-> << >>, mimetype |-> << >>, originalname |-> << >>, size |-> 0]

UploadFiles == {HelloTxt, DocPdf, ArchiveZip, DrawingSvg, HugeTxt}

\* Values of Math.random(), as base-36 fraction digits.
RandomValues ==
  { <<"a", "b", "c", "1", "2", "3">>,
    <<"a", "b", "c", "1", "2", "3", "z">>,
    <<"k", "7">> }

\* Codes a client asks for: the ones the generator can issue and one it
\* cannot.
RequestCodes ==
  { generateShortCode(r) : r \in RandomValues } \cup {<<"Z", "Z", "Z", "Z", "Z", "Z">>}

(***************************************************************************)
(* State.                                                                  *)
(***************************************************************************)
VARIABLES
  fileStorage,   \* Map fileId -> {buffer, mimetype, originalname, size}
  fileMetadata,  \* Map fileId -> metadata
  timers,        \* pending setTimeout callbacks: {fileId, fireAt}
  now,           \* Date.now()
  nextId,        \* the next value of uuidv4(): ids are never reused
  uploaded,      \* history: metadata of every object ever stored
  uploadedData,  \* history: fileStorage entry of every object ever stored
  lastReq,       \* the request (or event) handled last
  lastResp       \* its response

vars == <<fileStorage, fileMetadata, timers, now, nextId, uploaded, uploadedData,
          lastReq, lastResp>>

NoId == 0

Event(op) == [op |-> op, code |-> << >>, file |-> NoFile]

NoResp ==
  [status |-> 0, hit |-> NoId, error |-> "",
   shortCode |-> << >>, downloadUrl |-> Null, previewUrl |-> Null,
   filename |-> << >>, size |-> 0, previewable |-> FALSE,
   body |-> << >>, contentType |-> << >>, disposition |-> "", cleaned |-> FALSE]

ErrorResp(status, hit, error) ==
  [NoResp EXCEPT !.status = status, !.hit = hit, !.error = error]

Init ==
  /\ fileStorage = << >>
  /\ fileMetadata = << >>
  /\ timers = {}
  /\ now = 0
  /\ nextId = 1
  /\ uploaded = << >>
  /\ uploadedData = << >>
  /\ lastReq = Event("listen")
  /\ lastResp = NoResp

\* Map.prototype.set and Map.prototype.delete
MapSet(m, k, v) == [x \in DOMAIN m \cup {k} |-> IF x = k THEN v ELSE m[x]]
MapDelete(m, k) == [x \in DOMAIN m \ {k} |-> m[x]]

\* the scan with = in place of ===
FindByCodeAssign(code) ==
  LET matches == {id \in DOMAIN fileMetadata : code # << >>}
  IN IF matches = {} THEN NoId
     ELSE CHOOSE id \in matches : \A other \in matches : id <= other

FindByCodeLast(code) ==
  LET matches == {id \in DOMAIN fileMetadata : fileMetadata[id].shortCode = code}
  IN IF matches = {} THEN NoId
     ELSE CHOOSE id \in matches : \A other \in matches : id >= other

\* The linear scan of download and preview.  A Map iterates in insertion
\* order and ids are inserted in increasing order, so the first match is
\* the smallest id.
FindByCode(code) ==
  LET matches == {id \in DOMAIN fileMetadata : fileMetadata[id].shortCode = code}
  IN IF matches = {} THEN NoId
     ELSE CHOOSE id \in matches : \A other \in matches : id <= other

(***************************************************************************)
(* POST /upload.  multer runs first: fileFilter when the part starts, the  *)
(* size limit while it is read; either failure is passed to Express as an  *)
(* error and the route handler never runs.  The formatted expiresAt of the *)
(* response (toLocaleString) is not modelled.                              *)
(***************************************************************************)
Metadata(fileId, shortCode, file) ==
  [fileId |-> fileId,
   shortCode |-> shortCode,
   originalName |-> file.originalname,
   size |-> file.size,
   mimetype |-> file.mimetype,
   uploadTime |-> now,
   expirationTime |-> now + TTL,
   previewable |-> isPreviewable(file.mimetype),
   downloadUrl |-> DownloadPath \o shortCode,
   previewUrl |-> IF isPreviewable(file.mimetype) THEN PreviewPath \o shortCode ELSE Null]

UploadResp(shortCode, file) ==
  [NoResp EXCEPT
     !.status = 200,
     !.shortCode = shortCode,
     !.downloadUrl = DownloadPath \o shortCode,
     !.previewUrl = IF isPreviewable(file.mimetype) THEN PreviewPath \o shortCode ELSE Null,
     !.filename = file.originalname,
     !.size = file.size,
     !.previewable = isPreviewable(file.mimetype)]

FileData(file) ==
  [buffer |-> file.buffer, mimetype |-> file.mimetype,
   originalname |-> file.originalname, size |-> file.size]

Unchanged ==
  UNCHANGED <<fileStorage, fileMetadata, timers, now, nextId, uploaded, uploadedData>>

Upload(file, random) ==
  /\ lastReq' = [op |-> "upload", code |-> << >>, file |-> file]
  /\ IF ~fileFilter(file.mimetype)
     THEN /\ lastResp' = ErrorResp(500, NoId, "File type not allowed")
          /\ Unchanged
     ELSE IF ~withinLimits(file.size)
     THEN /\ lastResp' = ErrorResp(500, NoId, "File too large")
          /\ Unchanged
     ELSE LET fileId == nextId
              shortCode == generateShortCode(random)
          IN /\ nextId <= MaxUploads
             /\ now + TTL < MaxTime
             /\ fileStorage' = MapSet(fileStorage, fileId, FileData(file))
             /\ fileMetadata' = MapSet(fileMetadata, fileId, Metadata(fileId, shortCode, file))
             /\ timers' = timers \cup {[fileId |-> fileId, fireAt |-> now + CleanupDelay]}
             /\ nextId' = nextId + 1
             /\ uploaded' = MapSet(uploaded, fileId, Metadata(fileId, shortCode, file))
             /\ uploadedData' = MapSet(uploadedData, fileId, FileData(file))
             /\ lastResp' = UploadResp(shortCode, file)
             /\ UNCHANGED now

\* A post without a file part: req.file is undefined.
UploadNoFile ==
  /\ lastReq' = Event("upload")
  /\ lastResp' = ErrorResp(400, NoId, "No file selected or file type not supported")
  /\ Unchanged

(***************************************************************************)
(* The cleanup callback of setTimeout: it runs no earlier than its delay,  *)
(* and possibly later.  For a timer event hit is the fileId of the closure *)
(* and cleaned tells whether the callback logged "Cleaned up".             *)
(***************************************************************************)
TimerDue(t) == now >= t.fireAt

\* a callback that cleans up by the shortCode of its closure
CleanupCallbackByCode(fileId) ==
  IF fileId \in DOMAIN fileStorage
  THEN LET same == {id \in DOMAIN fileMetadata :
                      fileMetadata[id].shortCode = uploaded[fileId].shortCode}
       IN /\ fileStorage' = [id \in DOMAIN fileStorage \ same |-> fileStorage[id]]
          /\ fileMetadata' = [id \in DOMAIN fileMetadata \ same |-> fileMetadata[id]]
  ELSE UNCHANGED <<fileStorage, fileMetadata>>

CleanupCallbackStorageOnly(fileId) ==
  IF fileId \in DOMAIN fileStorage
  THEN /\ fileStorage' = MapDelete(fileStorage, fileId)
       /\ UNCHANGED fileMetadata
  ELSE UNCHANGED <<fileStorage, fileMetadata>>

CleanupCallback(fileId) ==
  IF fileId \in DOMAIN fileStorage
  THEN /\ fileStorage' = MapDelete(fileStorage, fileId)
       /\ fileMetadata' = MapDelete(fileMetadata, fileId)
  ELSE UNCHANGED <<fileStorage, fileMetadata>>

TimerFire(t) ==
  /\ t \in timers
  /\ TimerDue(t)
  /\ timers' = timers \ {t}
  /\ CleanupCallback(t.fileId)
  /\ lastReq' = Event("timer")
  /\ lastResp' = [NoResp EXCEPT !.hit = t.fileId,
                                !.cleaned = t.fileId \in DOMAIN fileStorage]
  /\ UNCHANGED <<now, nextId, uploaded, uploadedData>>

(***************************************************************************)
(* GET /api/download/:code and GET /api/preview/:code.  hit records the id *)
(* the scan resolved the code to; it is not part of the HTTP response.     *)
(***************************************************************************)
Served(fileId, disposition) ==
  [NoResp EXCEPT
     !.status = 200,
     !.hit = fileId,
     !.body = fileStorage[fileId].buffer,
     !.contentType = fileMetadata[fileId].mimetype,
     !.filename = fileMetadata[fileId].originalName,
     !.disposition = disposition]

DownloadResp(code) ==
  LET fileId == FindByCode(code)
  IN IF fileId = NoId THEN ErrorResp(404, NoId, "File not found")
     ELSE IF fileId \notin DOMAIN fileStorage THEN ErrorResp(404, fileId, "File data not found")
     ELSE IF isExpired(now, fileMetadata[fileId].expirationTime)
          THEN ErrorResp(410, fileId, "File has expired")
     ELSE Served(fileId, "attachment")

PreviewRespNoExpiry(code) ==
  LET fileId == FindByCode(code)
  IN IF fileId = NoId THEN ErrorResp(404, NoId, "File not found")
     ELSE IF ~fileMetadata[fileId].previewable
          THEN ErrorResp(403, fileId, "File cannot be previewed")
     ELSE IF fileId \notin DOMAIN fileStorage THEN ErrorResp(404, fileId, "File data not found")
     ELSE Served(fileId, "inline")

PreviewResp(code) ==
  LET fileId == FindByCode(code)
  IN IF fileId = NoId THEN ErrorResp(404, NoId, "File not found")
     ELSE IF ~fileMetadata[fileId].previewable
          THEN ErrorResp(403, fileId, "File cannot be previewed")
     ELSE IF fileId \notin DOMAIN fileStorage THEN ErrorResp(404, fileId, "File data not found")
     ELSE IF isExpired(now, fileMetadata[fileId].expirationTime)
          THEN ErrorResp(410, fileId, "File has expired")
     ELSE Served(fileId, "inline")

\* a read that also deletes what it has served
EvictAfterServe(resp) ==
  IF resp.status \in {200, 410}
  THEN /\ fileStorage' = MapDelete(fileStorage, resp.hit)
       /\ fileMetadata' = MapDelete(fileMetadata, resp.hit)
  ELSE UNCHANGED <<fileStorage, fileMetadata>>

\* a read that pushes the expiry of what it has served
EvictOrRenew(resp) ==
  IF resp.status = 410
  THEN /\ fileStorage' = MapDelete(fileStorage, resp.hit)
       /\ fileMetadata' = MapDelete(fileMetadata, resp.hit)
  ELSE IF resp.status = 200
  THEN /\ fileMetadata' = [fileMetadata EXCEPT ![resp.hit].expirationTime = now + TTL]
       /\ UNCHANGED fileStorage
  ELSE UNCHANGED <<fileStorage, fileMetadata>>

EvictStorageOnly(resp) ==
  IF resp.status = 410
  THEN /\ fileStorage' = MapDelete(fileStorage, resp.hit)
       /\ UNCHANGED fileMetadata
  ELSE UNCHANGED <<fileStorage, fileMetadata>>

\* The store after a read that answered resp: only the Expired branch
\* deletes.
Evict(resp) ==
  IF resp.status = 410
  THEN /\ fileStorage' = MapDelete(fileStorage, resp.hit)
       /\ fileMetadata' = MapDelete(fileMetadata, resp.hit)
  ELSE UNCHANGED <<fileStorage, fileMetadata>>

Download(code) ==
  /\ lastReq' = [op |-> "download", code |-> code, file |-> NoFile]
  /\ lastResp' = DownloadResp(code)
  /\ Evict(DownloadResp(code))
  /\ UNCHANGED <<timers, now, nextId, uploaded, uploadedData>>

\* a preview whose expired branch answers 410 without the two deletes
PreviewNoEvict(code) ==
  /\ lastReq' = [op |-> "preview", code |-> code, file |-> NoFile]
  /\ lastResp' = PreviewResp(code)
  /\ UNCHANGED <<fileStorage, fileMetadata, timers, now, nextId, uploaded, uploadedData>>

Preview(code) ==
  /\ lastReq' = [op |-> "preview", code |-> code, file |-> NoFile]
  /\ lastResp' = PreviewResp(code)
  /\ Evict(PreviewResp(code))
  /\ UNCHANGED <<timers, now, nextId, uploaded, uploadedData>>

(***************************************************************************)
(* The clock.                                                              *)
(***************************************************************************)
Tick ==
  /\ now + TickMs <= MaxTime
  /\ now' = now + TickMs
  /\ lastReq' = Event("tick")
  /\ lastResp' = NoResp
  /\ UNCHANGED <<fileStorage, fileMetadata, timers, nextId, uploaded, uploadedData>>

Next ==
  \/ \E file \in UploadFiles, random \in RandomValues : Upload(file, random)
  \/ UploadNoFile
  \/ \E code \in RequestCodes : Download(code)
  \/ \E code \in RequestCodes : Preview(code)
  \/ \E t \in timers : TimerFire(t)
  \/ Tick

Spec == Init /\ [][Next]_vars

\* Time passes and a due timer callback is eventually run by the event loop.
FairSpec == Spec /\ WF_vars(Tick) /\ WF_vars(\E t \in timers : TimerFire(t))

TypeOK ==
  /\ DOMAIN fileStorage \subseteq 1..MaxUploads
  /\ DOMAIN fileMetadata \subseteq 1..MaxUploads
  /\ now \in 0..MaxTime
  /\ nextId \in 1..(MaxUploads + 1)

(***************************************************************************)
(* Properties.                                                             *)
(***************************************************************************)
Reads == {"download", "preview"}

\* C1: no two objects that are in the store at the same time have the same
\* shortCode.
C1_DistinctShortCodes ==
  \A a \in DOMAIN fileMetadata : \A b \in DOMAIN fileMetadata :
    a # b => fileMetadata[a].shortCode # fileMetadata[b].shortCode

\* C2: right after a successful upload, a download of the returned shortCode
\* succeeds with exactly the uploaded bytes and content-type.
C2_UploadThenDownload ==
  (lastReq.op = "upload" /\ lastResp.status = 200) =>
    LET r == DownloadResp(lastResp.shortCode)
    IN /\ r.status = 200
       /\ r.body = lastReq.file.buffer
       /\ r.contentType = lastReq.file.mimetype

\* C3 as stated: a download or preview of an uploaded object's shortCode,
\* issued after the object's expiresAt, is answered 410 Expired.
C3_ExpiredReadIs410 ==
  \A id \in DOMAIN uploaded :
    (/\ lastReq.op \in Reads
     /\ lastReq.code = uploaded[id].shortCode
     /\ now > uploaded[id].expirationTime)
    => lastResp.status = 410

\* C3 amended: such a read is answered 410 Expired when the object is still
\* in the store; when the object has already been evicted the read does not
\* resolve to it, and is answered 404 NotFound unless another stored object
\* carries the code.
C3_ExpiredReadFails ==
  [][\A id \in DOMAIN uploaded :
       (/\ lastReq'.op \in Reads
        /\ lastReq'.code = uploaded[id].shortCode
        /\ now > uploaded[id].expirationTime)
       => IF id \in DOMAIN fileMetadata
          THEN lastResp'.status = 410
          ELSE /\ lastResp'.hit # id
               /\ FindByCode(lastReq'.code) = NoId => lastResp'.status = 404]_vars

C3_Witness ==
  \E id \in DOMAIN uploaded :
    /\ lastReq.op = "download"
    /\ lastReq.code = uploaded[id].shortCode
    /\ now > uploaded[id].expirationTime
    /\ lastResp.status = 410
    /\ lastResp.hit = id

\* C4: a download or preview that returns a payload returns the payload of
\* an object whose expiresAt has not passed.
C4_NoPayloadAfterExpiry ==
  (lastReq.op \in Reads /\ lastResp.status = 200) =>
    /\ lastResp.hit \in DOMAIN uploaded
    /\ now <= uploaded[lastResp.hit].expirationTime

\* an expired object that its timer has not evicted yet is refused
C4_Witness ==
  /\ lastReq.op = "preview"
  /\ lastResp.status = 410
  /\ \E t \in timers : t.fileId = lastResp.hit
  /\ now > uploaded[lastResp.hit].expirationTime

\* C5: a read answered 410 Expired has removed the object from both maps,
\* and a lookup of the same shortCode now finds nothing.
C5_ExpiredReadEvicts ==
  (lastReq.op \in Reads /\ lastResp.status = 410) =>
    /\ lastResp.hit \notin DOMAIN fileStorage
    /\ lastResp.hit \notin DOMAIN fileMetadata
    /\ FindByCode(lastReq.code) = NoId

\* C6: every object in the store is eventually absent from both maps.
C6_EventuallyRemoved ==
  \A id \in 1..MaxUploads :
    (id \in DOMAIN fileMetadata)
      ~> (id \notin DOMAIN fileMetadata /\ id \notin DOMAIN fileStorage)

\* every object was removed by the timers, the last one without any read
C6_Witness ==
  /\ lastReq.op = "timer"
  /\ Cardinality(DOMAIN uploaded) = MaxUploads
  /\ DOMAIN fileMetadata = {}
  /\ DOMAIN fileStorage = {}
  /\ timers = {}

\* C7: an uploaded object whose expiresAt lies in the future is in both
\* maps.
C7_NoEarlyRemoval ==
  \A id \in DOMAIN uploaded :
    now < uploaded[id].expirationTime =>
      /\ id \in DOMAIN fileStorage
      /\ id \in DOMAIN fileMetadata

\* an older object has been evicted by its timer, a younger one is kept
C7_Witness ==
  /\ lastReq.op = "timer"
  /\ \E a \in DOMAIN uploaded : \E b \in DOMAIN uploaded :
       /\ a \notin DOMAIN fileMetadata
       /\ b \in DOMAIN fileMetadata
       /\ now < uploaded[b].expirationTime

\* C8: an upload whose content-type is not in the allow-list fails, leaves
\* both maps unchanged and schedules no timer.
C8_UnsupportedTypeNoObject ==
  [][(lastReq'.op = "upload" /\ lastReq'.file.mimetype \notin allowedTypes)
     => /\ lastResp'.status \notin {0, 200}
        /\ fileStorage' = fileStorage
        /\ fileMetadata' = fileMetadata
        /\ timers' = timers]_vars

C8_Witness ==
  /\ lastReq.op = "upload"
  /\ lastReq.file = ArchiveZip
  /\ lastResp.status = 500
  /\ DOMAIN fileMetadata # {}

\* C9: an upload whose payload is larger than the 10 MiB cap fails and
\* leaves both maps, and so the number of objects, unchanged.
C9_TooLargeNoObject ==
  [][(lastReq'.op = "upload" /\ lastReq'.file.size > 10 * 1024 * 1024)
     => /\ lastResp'.status \notin {0, 200}
        /\ fileStorage' = fileStorage
        /\ fileMetadata' = fileMetadata
        /\ Cardinality(DOMAIN fileMetadata') = Cardinality(DOMAIN fileMetadata)]_vars

C9_Witness ==
  /\ lastReq.op = "upload"
  /\ lastReq.file = HugeTxt
  /\ lastResp.status = 500
  /\ DOMAIN fileStorage # {}

\* The top-level class of a MIME type: what precedes its first "/".
TopLevelClass(mimetype) ==
  LET slashes == {i \in 1..Len(mimetype) : mimetype[i] = "/"}
  IN IF slashes = {} THEN << >>
     ELSE SubSeq(mimetype, 1, (CHOOSE i \in slashes : \A j \in slashes : i <= j) - 1)

PreviewClass(mimetype) ==
  \/ TopLevelClass(mimetype) \in
       { <<"i", "m", "a", "g", "e">>, <<"v", "i", "d", "e", "o">>,
         <<"a", "u", "d", "i", "o">>, <<"t", "e", "x", "t">> }
  \/ mimetype = <<"a", "p", "p", "l", "i", "c", "a", "t", "i", "o", "n", "/", "p", "d", "f">>

\* C10: a stored object is previewable exactly when its content-type is of
\* class image, video, audio or text or is application/pdf, and the upload
\* response carries a previewUrl exactly when it says previewable.
C10_PreviewableFlag ==
  /\ \A id \in DOMAIN fileMetadata :
       fileMetadata[id].previewable = PreviewClass(fileMetadata[id].mimetype)
  /\ (lastReq.op = "upload" /\ lastResp.status = 200) =>
       /\ lastResp.previewable = PreviewClass(lastReq.file.mimetype)
       /\ (lastResp.previewUrl # Null) = lastResp.previewable

C10_Witness ==
  /\ lastReq.op = "upload"
  /\ lastResp.status = 200
  /\ lastResp.previewUrl = PreviewPath \o lastResp.shortCode
  /\ \E a \in DOMAIN fileMetadata : fileMetadata[a].mimetype = ApplicationPdf
  /\ \E b \in DOMAIN fileMetadata : fileMetadata[b].mimetype # ApplicationPdf

Digits == {"0", "1", "2", "3", "4", "5", "6", "7", "8", "9"}

\* C11: the shortCode of a successful upload has exactly 6 characters, each
\* an uppercase letter or a digit.
C11_SixCharCode ==
  (lastReq.op = "upload" /\ lastResp.status = 200) =>
    /\ Len(lastResp.shortCode) = 6
    /\ \A i \in 1..Len(lastResp.shortCode) :
         \/ lastResp.shortCode[i] \in Digits
         \/ \E k \in 1..26 : UpperCase[k] = lastResp.shortCode[i]

\* C12: a download or preview of a code that no stored object carries is
\* answered 404 NotFound and leaves both maps unchanged.
C12_UnknownCodeNotFound ==
  [][(/\ lastReq'.op \in Reads
      /\ \A id \in DOMAIN fileMetadata : fileMetadata[id].shortCode # lastReq'.code)
     => /\ lastResp'.status = 404
        /\ fileStorage' = fileStorage
        /\ fileMetadata' = fileMetadata]_vars

C12_Witness ==
  /\ lastReq.op \in Reads
  /\ lastResp.status = 404
  /\ DOMAIN fileMetadata # {}
  /\ \A id \in DOMAIN fileMetadata : fileMetadata[id].shortCode # lastReq.code

\* C13: fileStorage and fileMetadata hold the same ids whenever a handler or
\* a timer callback starts, and no read answers "File data not found".
C13_SameIds ==
  /\ DOMAIN fileStorage = DOMAIN fileMetadata
  /\ lastResp.error # "File data not found"

\* an expired read has just deleted one object and another is still stored
C13_Witness ==
  /\ lastReq.op \in Reads
  /\ lastResp.status = 410
  /\ lastResp.hit \notin DOMAIN fileStorage \cup DOMAIN fileMetadata
  /\ DOMAIN fileStorage # {}
  /\ \E t \in timers : t.fileId = lastResp.hit

\* C14: a timer callback changes nothing about any object other than the one
\* it was scheduled for, and changes nothing at all when that object is
\* already gone.
C14_TimerOwnObjectOnly ==
  [][lastReq'.op = "timer" =>
       /\ \A id \in DOMAIN fileMetadata \ {lastResp'.hit} :
            /\ id \in DOMAIN fileMetadata'
            /\ fileMetadata'[id] = fileMetadata[id]
       /\ \A id \in DOMAIN fileStorage \ {lastResp'.hit} :
            /\ id \in DOMAIN fileStorage'
            /\ fileStorage'[id] = fileStorage[id]
       /\ lastResp'.hit \notin DOMAIN fileStorage =>
            /\ fileStorage' = fileStorage
            /\ fileMetadata' = fileMetadata]_vars

\* the timer of an object that an expired read had removed has fired while
\* a later object with the same shortCode is stored
C14_Witness ==
  /\ lastReq.op = "timer"
  /\ ~lastResp.cleaned
  /\ \E id \in DOMAIN fileMetadata :
       /\ id # lastResp.hit
       /\ fileMetadata[id].shortCode = uploaded[lastResp.hit].shortCode

\* C15: a download or preview whose code resolves to an object that has not
\* expired returns that object's payload and leaves both maps and the timers
\* as they were.
C15_ReadLeavesStore ==
  [][(/\ lastReq'.op \in Reads
      /\ FindByCode(lastReq'.code) # NoId
      /\ now <= fileMetadata[FindByCode(lastReq'.code)].expirationTime)
     => /\ lastResp'.status = 200
        /\ lastResp'.body = fileStorage[FindByCode(lastReq'.code)].buffer
        /\ fileStorage' = fileStorage
        /\ fileMetadata' = fileMetadata
        /\ timers' = timers]_vars

C15_Witness ==
  /\ lastReq.op \in Reads
  /\ lastResp.status = 200
  /\ lastResp.body = fileStorage[lastResp.hit].buffer
  /\ Cardinality(DOMAIN fileMetadata) >= 2
  /\ now = fileMetadata[lastResp.hit].expirationTime

\* C16: a stored object keeps the shortCode, payload, content-type, name,
\* size, previewable flag and expiresAt it was uploaded with, and its
\* expiresAt is its upload time plus 3 hours.
C16_ObjectImmutable ==
  /\ \A id \in DOMAIN fileMetadata :
       /\ fileMetadata[id] = uploaded[id]
       /\ fileMetadata[id].expirationTime = uploaded[id].uploadTime + 3 * 60 * 60 * 1000
  /\ \A id \in DOMAIN fileStorage : fileStorage[id] = uploadedData[id]
  /\ (lastReq.op = "upload" /\ lastResp.status = 200) =>
       /\ fileStorage[nextId - 1].buffer = lastReq.file.buffer
       /\ fileMetadata[nextId - 1].shortCode = lastResp.shortCode
       /\ fileMetadata[nextId - 1].mimetype = lastReq.file.mimetype
       /\ fileMetadata[nextId - 1].originalName = lastReq.file.originalname
       /\ fileMetadata[nextId - 1].size = lastReq.file.size
       /\ fileMetadata[nextId - 1].uploadTime = now

\* the first object has been served some time after a second upload
C16_Witness ==
  /\ lastReq.op \in Reads
  /\ lastResp.status = 200
  /\ lastResp.hit = 1
  /\ 2 \in DOMAIN fileMetadata
  /\ now > uploaded[1].uploadTime
  /\ now >= uploaded[2].uploadTime

\* C17: preview answers and changes the store as download of the same code
\* in the same state would, except that it answers 403 when the resolved
\* object is not previewable and that it serves with disposition inline
\* where download serves with attachment.
C17_PreviewAsDownload ==
  [][LET d == DownloadResp(lastReq'.code)
         storageAfter == IF d.status = 410 THEN MapDelete(fileStorage, d.hit) ELSE fileStorage
         metadataAfter == IF d.status = 410 THEN MapDelete(fileMetadata, d.hit) ELSE fileMetadata
     IN /\ lastReq'.op = "download" =>
             /\ lastResp' = d
             /\ d.status = 200 => d.disposition = "attachment"
             /\ fileStorage' = storageAfter
             /\ fileMetadata' = metadataAfter
        /\ lastReq'.op = "preview" =>
             IF d.hit # NoId /\ ~fileMetadata[d.hit].previewable
             THEN lastResp'.status = 403
             ELSE /\ lastResp' = IF d.status = 200 THEN [d EXCEPT !.disposition = "inline"] ELSE d
                  /\ fileStorage' = storageAfter
                  /\ fileMetadata' = metadataAfter]_vars

C17_Witness ==
  /\ lastReq.op = "preview"
  /\ lastResp.status = 200
  /\ lastResp.disposition = "inline"
  /\ DownloadResp(lastReq.code).body = lastResp.body
  /\ DownloadResp(lastReq.code).disposition = "attachment"

\* C18: every content-type of the allow-list is previewable, so every stored
\* object has previewable = TRUE and no preview is answered 403.
C18_AlwaysPreviewable ==
  /\ \A mimetype \in allowedTypes : isPreviewable(mimetype) /\ PreviewClass(mimetype)
  /\ \A id \in DOMAIN fileMetadata : fileMetadata[id].previewable
  /\ \A id \in DOMAIN uploaded : uploaded[id].previewable
  /\ lastResp.status # 403

\* a stored application/pdf, the one type admitted by name, is previewed
C18_Witness ==
  /\ lastReq.op = "preview"
  /\ lastResp.status = 200
  /\ lastResp.contentType = ApplicationPdf
  /\ fileMetadata[lastResp.hit].previewable

\* C19: a download or preview of a code that several stored objects carry
\* resolves to the one uploaded first among them (ids are issued in upload
\* order), so a later one is reached only once the earlier ones are gone.
C19_OldestFirst ==
  [][lastReq'.op \in Reads =>
       \A id \in DOMAIN fileMetadata :
         fileMetadata[id].shortCode = lastReq'.code =>
           /\ lastResp'.hit \in DOMAIN fileMetadata
           /\ fileMetadata[lastResp'.hit].shortCode = lastReq'.code
           /\ lastResp'.hit <= id
           /\ fileMetadata[lastResp'.hit].uploadTime <= fileMetadata[id].uploadTime]_vars

\* the older of two stored objects with one code, uploaded at different
\* times, is the one served
C19_Witness ==
  /\ lastReq.op = "download"
  /\ lastResp.status = 200
  /\ \E id \in DOMAIN fileMetadata :
       /\ id # lastResp.hit
       /\ fileMetadata[id].shortCode = lastReq.code
       /\ fileMetadata[id].uploadTime > fileMetadata[lastResp.hit].uploadTime
       /\ fileStorage[id].buffer # lastResp.body

====
